---- MODULE Spec2Model ----
(***************************************************************************)
(* A model of app/functions.py of the invoice extraction app: the file     *)
(* name cleaner, the PDF loader with its temporary file, the recursive     *)
(* character splitter as split_document configures it, the content         *)
(* addressed vector store ingestion and the batch loop over uploaded PDFs. *)
(*                                                                         *)
(* Text is a sequence of one-character strings, so that the regular        *)
(* expression, the separators and the lengths are computed, not assumed.   *)
(***************************************************************************)
EXTENDS Integers, Sequences, FiniteSets, TLC

VARIABLES
    last,          \* the operation that ran last ("init" before any)
    filename,      \* clean_filename: its argument
    new_filename,  \* clean_filename: its result
    split_in,      \* split_document: [documents, chunk_size, chunk_overlap]
    split_out,     \* split_document: the chunks it returned
    tmpdir,        \* the temporary files that exist on disk
    pdf_call,      \* get_pdf_text: what its last call did
    db,            \* the persisted Chroma store: collection name -> entries
    cv_call,       \* create_vectorstore: what its last call did
    batch          \* process_multiple_pdfs: the state of the loop

vars == <<last, filename, new_filename, split_in, split_out, tmpdir,
          pdf_call, db, cv_call, batch>>

(***************************************************************************)
(* Bounds of the model.                                                    *)
(***************************************************************************)
MaxNameLen == 5
MaxTextLen == 4
MaxPages == 2
MaxChunkSize == 3
MaxPdfPages == 2
MaxChunks == 2
MaxDedupLen == 4
MaxBatch == 2

\* All sequences over S of length at most n.
BoundedSeq(S, n) == UNION {[1..k -> S] : k \in 0..n}

\* s[i:] of Python, 1-based: the suffix that starts at index i.
From(s, i) == IF i > Len(s) THEN <<>> ELSE SubSeq(s, i, Len(s))

(***************************************************************************)
(* clean_filename: re.sub(r'\s\(\d+\)', '', filename)                      *)
(***************************************************************************)
Whitespace == {" ", "\t", "\n"}
Digits == {"0", "1", "2"}

RECURSIVE DigitsEnd(_, _)
\* The first index at or after j that holds no digit (greedy \d*).
DigitsEnd(s, j) ==
    IF j <= Len(s) /\ s[j] \in Digits THEN DigitsEnd(s, j + 1) ELSE j

\* The index where a match of \s\(\d+\) that starts at i ends, 0 if none does.
MatchEnd(s, i) ==
    IF i + 3 <= Len(s) /\ s[i] \in Whitespace /\ s[i + 1] = "("
    THEN LET j == DigitsEnd(s, i + 2)
         IN  IF j > i + 2 /\ j <= Len(s) /\ s[j] = ")" THEN j ELSE 0
    ELSE 0

RECURSIVE re_sub(_, _)
\* One left-to-right pass that drops every non-overlapping match.
re_sub(s, i) ==
    IF i > Len(s) THEN <<>>
    ELSE LET e == MatchEnd(s, i)
         IN  IF e > 0 THEN re_sub(s, e + 1) ELSE <<s[i]>> \o re_sub(s, i + 1)

clean_filename(fn) == re_sub(fn, 1)

\* A "(number)" pattern: an opening parenthesis, digits, a closing parenthesis.
HasParenNumber(s) ==
    \E i \in 1..Len(s) :
        /\ s[i] = "("
        /\ LET j == DigitsEnd(s, i + 1)
           IN  j > i + 1 /\ j <= Len(s) /\ s[j] = ")"

NameChars == {"a", " ", "(", ")", "1"}
FileNameInputs == BoundedSeq(NameChars, MaxNameLen)

(***************************************************************************)
(* split_document: RecursiveCharacterTextSplitter(chunk_size,              *)
(* chunk_overlap, length_function=len, separators=["\n\n", "\n", " "])     *)
(* with the library's defaults keep_separator=True, strip_whitespace=True, *)
(* and split_documents over the pages.                                     *)
(***************************************************************************)
Separators == << <<"\n", "\n">>, <<"\n">>, <<" ">> >>

\* Whether sep occurs in text at index i.
IsAt(text, sep, i) ==
    /\ i + Len(sep) - 1 <= Len(text)
    /\ SubSeq(text, i, i + Len(sep) - 1) = sep

\* re.search(re.escape(sep), text)
Contains(text, sep) == \E i \in 1..Len(text) : IsAt(text, sep, i)

RECURSIVE SplitScan(_, _, _, _)
\* re.split("(sep)", text) with every separator glued to the piece after it.
SplitScan(text, sep, i, cur) ==
    IF i > Len(text) THEN <<cur>>
    ELSE IF IsAt(text, sep, i)
         THEN <<cur>> \o SplitScan(text, sep, i + Len(sep), sep)
         ELSE SplitScan(text, sep, i + 1, Append(cur, text[i]))

\* _split_text_with_regex(text, separator, keep_separator=True)
split_text_with_regex(text, sep) ==
    SelectSeq(SplitScan(text, sep, 1, <<>>), LAMBDA s : s # <<>>)

RECURSIVE LStrip(_)
LStrip(s) == IF s # <<>> /\ Head(s) \in Whitespace THEN LStrip(Tail(s)) ELSE s

RECURSIVE RStrip(_)
RStrip(s) ==
    IF s # <<>> /\ s[Len(s)] \in Whitespace
    THEN RStrip(SubSeq(s, 1, Len(s) - 1)) ELSE s

\* str.strip()
Strip(s) == RStrip(LStrip(s))

RECURSIVE Join(_, _)
\* sep.join(parts)
Join(parts, sep) ==
    IF parts = <<>> THEN <<>>
    ELSE IF Len(parts) = 1 THEN parts[1]
    ELSE parts[1] \o sep \o Join(Tail(parts), sep)

\* _join_docs: the joined, stripped text as a one-element list, or no element
\* when it is empty (None).
join_docs(docs, sep) ==
    LET text == Strip(Join(docs, sep))
    IN  IF text = <<>> THEN <<>> ELSE <<text>>

RECURSIVE PopWhile(_, _, _, _, _, _)
\* The while loop of _merge_splits that drops the oldest splits of current_doc
\* until what is left fits the overlap and leaves room for the next split.
PopWhile(cur, total, len, seplen, S, O) ==
    IF \/ total > O
       \/ /\ total + len + (IF Len(cur) > 0 THEN seplen ELSE 0) > S
          /\ total > 0
    THEN PopWhile(Tail(cur),
                  total - (Len(cur[1]) + (IF Len(cur) > 1 THEN seplen ELSE 0)),
                  len, seplen, S, O)
    ELSE [current_doc |-> cur, total |-> total]

RECURSIVE MergeLoop(_, _, _, _, _, _, _)
\* The for loop of _merge_splits and the final join.
MergeLoop(splits, docs, cur, total, sep, S, O) ==
    IF splits = <<>> THEN docs \o join_docs(cur, sep)
    ELSE LET d == Head(splits)
             len == Len(d)
             over == total + len + (IF Len(cur) > 0 THEN Len(sep) ELSE 0) > S
             flushed == IF over /\ Len(cur) > 0
                        THEN docs \o join_docs(cur, sep) ELSE docs
             kept == IF over /\ Len(cur) > 0
                     THEN PopWhile(cur, total, len, Len(sep), S, O)
                     ELSE [current_doc |-> cur, total |-> total]
         IN  MergeLoop(Tail(splits), flushed, Append(kept.current_doc, d),
                       kept.total + len, sep, S, O)

merge_splits(splits, sep, S, O) == MergeLoop(splits, <<>>, <<>>, 0, sep, S, O)

\* The index of the first separator that occurs in text, 0 when none does.
FirstSeparator(text, seps) ==
    IF \E i \in 1..Len(seps) : Contains(text, seps[i])
    THEN CHOOSE i \in 1..Len(seps) :
            /\ Contains(text, seps[i])
            /\ \A j \in 1..(i - 1) : ~Contains(text, seps[j])
    ELSE 0

RECURSIVE split_text(_, _, _, _)
RECURSIVE SplitLoop(_, _, _, _, _, _)
\* The for loop of _split_text over the pieces and the final merge.
SplitLoop(splits, good, final, new_separators, S, O) ==
    IF splits = <<>>
    THEN IF good # <<>> THEN final \o merge_splits(good, <<>>, S, O) ELSE final
    ELSE LET s == Head(splits)
         IN  IF Len(s) < S
             THEN SplitLoop(Tail(splits), Append(good, s), final,
                            new_separators, S, O)
             ELSE LET merged == IF good # <<>>
                                THEN final \o merge_splits(good, <<>>, S, O)
                                ELSE final
                      deeper == IF new_separators = <<>>
                                THEN <<s>>
                                ELSE split_text(s, new_separators, S, O)
                  IN  SplitLoop(Tail(splits), <<>>, merged \o deeper,
                                new_separators, S, O)

\* RecursiveCharacterTextSplitter._split_text(text, separators)
split_text(text, separators, S, O) ==
    LET i == FirstSeparator(text, separators)
        separator == IF i = 0 THEN separators[Len(separators)] ELSE separators[i]
        new_separators == IF i = 0 THEN <<>> ELSE From(separators, i + 1)
    IN  SplitLoop(split_text_with_regex(text, separator), <<>>, <<>>,
                  new_separators, S, O)

RECURSIVE split_document(_, _, _)
\* split_documents: the chunks of every page in page order, each carrying the
\* page's metadata.
split_document(documents, S, O) ==
    IF documents = <<>> THEN <<>>
    ELSE LET doc == Head(documents)
             texts == split_text(doc.page_content, Separators, S, O)
         IN  [k \in 1..Len(texts) |->
                 [page_content |-> texts[k], page |-> doc.page]]
             \o split_document(Tail(documents), S, O)

TextChars == {"a", " ", "\n"}
PageTexts == BoundedSeq(TextChars, MaxTextLen)

\* What the PDF parser returns for texts: one Document per page, numbered from 0.
Pages(texts) ==
    [k \in 1..Len(texts) |-> [page_content |-> texts[k], page |-> k - 1]]

DocumentInputs == {Pages(t) : t \in BoundedSeq(PageTexts, MaxPages)}

(***************************************************************************)
(* get_pdf_text.  An upload is [name, content]: the file's name and the    *)
(* page texts its bytes parse to.  fail_at names the step that raises      *)
(* ("none": no step does).  os.unlink removes the name also while the file *)
(* is still open (POSIX).                                                  *)
(***************************************************************************)
PdfSteps == <<"read", "create", "write", "close", "parse">>
FailAts == {"none"} \cup {PdfSteps[k] : k \in 1..Len(PdfSteps)}

NoError == [exc |-> "none", step |-> "none"]

\* The exception the failing step raises.
StepError(step) ==
    [exc |-> CASE step = "parse" -> "PdfReadError"
               [] step = "embed" -> "EmbeddingError"
               [] step = "query" -> "ModelError"
               [] step = "concat" -> "ValueError"
               [] OTHER -> "OSError",
     step |-> step]

\* tempfile.NamedTemporaryFile picks a name no file of the directory has.
NewTempName(dir) == CHOOSE n \in 1..(Cardinality(dir) + 1) : n \notin dir

\* The unlink as the last statement of the try body instead of a finally
\* block: it runs on the return path only.
unlink_on_return(temp_file, in_flight, dir) ==
    IF in_flight # NoError THEN [tmpdir |-> dir, raised |-> in_flight]
    ELSE [tmpdir |-> dir \ {temp_file[1]}, raised |-> in_flight]

\* The finally block, os.unlink(temp_file.name): temp_file is <<name>>, or <<>>
\* while the local variable was never assigned; in_flight is the exception that
\* is propagating (NoError on the return path).
finally_unlink(temp_file, in_flight, dir) ==
    IF temp_file = <<>>
    THEN [tmpdir |-> dir,
          raised |-> [exc |-> "UnboundLocalError", step |-> "finally"]]
    ELSE [tmpdir |-> dir \ {temp_file[1]}, raised |-> in_flight]

get_pdf_text(uploaded_file, fail_at, dir) ==
    LET created == fail_at \notin {"read", "create"}
        name == NewTempName(dir)
        temp_file == IF created THEN <<name>> ELSE <<>>
        written == IF created THEN dir \cup {name} ELSE dir
        in_flight == IF fail_at = "none" THEN NoError ELSE StepError(fail_at)
        fin == finally_unlink(temp_file, in_flight, written)
    IN  [uploaded_file |-> uploaded_file,
         fail_at |-> fail_at,
         temp_file |-> temp_file,
         tmpdir |-> fin.tmpdir,
         raised |-> fin.raised,
         documents |-> IF fin.raised = NoError
                       THEN Pages(uploaded_file.content) ELSE <<>>]

(***************************************************************************)
(* create_vectorstore.  A chunk is [page_content, page]; a collection is   *)
(* the list of its entries [id, page_content] (the embedding is a function *)
(* of the text, and the metadata stored beside it is read by no operation).*)
(***************************************************************************)
Alphabet == <<"a", "x", "y", "z", " ", "\n", "(", ")", "1", ".">>
CharCode(c) == CHOOSE k \in 1..Len(Alphabet) : Alphabet[k] = c

RECURSIVE uuid5(_)
\* str(uuid.uuid5(uuid.NAMESPACE_DNS, text)): a name-based hash of the text,
\* taken to be free of collisions (an injective code of the characters).
uuid5(text) ==
    IF text = <<>> THEN 0
    ELSE uuid5(SubSeq(text, 1, Len(text) - 1)) * (Len(Alphabet) + 1)
         + CharCode(text[Len(text)])

\* ids = [str(uuid.uuid5(...)) for doc in chunks]
ChunkIds(chunks) == [k \in 1..Len(chunks) |-> uuid5(chunks[k].page_content)]

RECURSIVE DedupLoop(_, _, _, _, _)
\* for chunk, id in zip(chunks, ids): keep the chunk when its id is new.
DedupLoop(chunks, ids, k, unique_ids, unique_chunks) ==
    IF k > Len(chunks)
    THEN [unique_ids |-> unique_ids, unique_chunks |-> unique_chunks]
    ELSE IF ids[k] \notin unique_ids
         THEN DedupLoop(chunks, ids, k + 1, unique_ids \cup {ids[k]},
                        Append(unique_chunks, chunks[k]))
         ELSE DedupLoop(chunks, ids, k + 1, unique_ids, unique_chunks)

RECURSIVE Reverse(_)
Reverse(l) == IF l = <<>> THEN <<>> ELSE Append(Reverse(Tail(l)), Head(l))

\* A dedup that keeps the last occurrence of every content instead of the
\* first.
DedupKeepLast(chunks) ==
    LET r == DedupLoop(Reverse(chunks), ChunkIds(Reverse(chunks)), 1, {}, <<>>)
    IN  [unique_ids |-> r.unique_ids, unique_chunks |-> Reverse(r.unique_chunks)]

Dedup(chunks) == DedupLoop(chunks, ChunkIds(chunks), 1, {}, <<>>)

\* list(unique_ids): the ids of a set in the order its iteration yields, which
\* for a set of strings is any order (it follows the per-process string hash).
ListsOf(id_set) ==
    {l \in [1..Cardinality(id_set) -> id_set] :
        \A i, j \in 1..Cardinality(id_set) : i # j => l[i] # l[j]}

\* collection.add without the replacement of known ids: every entry is appended.
AppendAll(collection, entries) == collection \o entries

RECURSIVE UpsertAll(_, _)
\* collection.upsert: an entry whose id the collection holds replaces that
\* entry in place, any other entry is appended.
UpsertAll(collection, entries) ==
    IF entries = <<>> THEN collection
    ELSE LET e == Head(entries)
             hit == {k \in 1..Len(collection) : collection[k].id = e.id}
             next == IF hit = {} THEN Append(collection, e)
                     ELSE [k \in 1..Len(collection) |->
                              IF k \in hit THEN e ELSE collection[k]]
         IN  UpsertAll(next, Tail(entries))

\* Chroma.from_documents(documents, ids=ids): the i-th id goes with the i-th
\* document.
Entries(documents, ids) ==
    [k \in 1..Len(documents) |->
        [id |-> ids[k], page_content |-> documents[k].page_content]]

\* The entries of collection name in store, none when it does not exist.
CollectionOf(store, name) == IF name \in DOMAIN store THEN store[name] ELSE <<>>

\* Chroma.from_documents: get or create the collection, embed the texts
\* (embed_ok: whether the embedding service answers), upsert, persist.
from_documents(store, documents, collection_name, ids, embed_ok) ==
    LET old == CollectionOf(store, collection_name)
        new == IF embed_ok THEN UpsertAll(old, Entries(documents, ids)) ELSE old
    IN  [n \in DOMAIN store \cup {collection_name} |->
            IF n = collection_name THEN new ELSE store[n]]

\* create_vectorstore(chunks, embedding_function, file_name): ids_list is
\* list(unique_ids).  Returns the store afterwards and what the call did.
create_vectorstore(store, chunks, file_name, ids_list, embed_ok) ==
    LET d == Dedup(chunks)
        collection_name == clean_filename(file_name)
    IN  [db |-> from_documents(store, d.unique_chunks, collection_name,
                               ids_list, embed_ok),
         chunks |-> chunks,
         file_name |-> file_name,
         collection_name |-> collection_name,
         unique_chunks |-> d.unique_chunks,
         ids |-> ids_list,
         count_before |-> Len(CollectionOf(store, collection_name)),
         raised |-> IF embed_ok THEN NoError ELSE StepError("embed")]

(***************************************************************************)
(* create_vectorstore_from_texts, query_document and the loop of           *)
(* process_multiple_pdfs.  The loop's state is [pc, pdf_files, i, results, *)
(* failed, raised, final_df]: i is the index of the file the loop is at,   *)
(* failed the file and stage that failed, raised the exception that left   *)
(* the call, final_df the table it returned.                               *)
(***************************************************************************)
DefaultChunkSize == 1000
DefaultChunkOverlap == 200
RetrieverK == 4

create_vectorstore_from_texts(store, documents, file_name, ids_list, embed_ok) ==
    create_vectorstore(store,
                       split_document(documents, DefaultChunkSize,
                                      DefaultChunkOverlap),
                       file_name, ids_list, embed_ok)

\* The chunks get_pdf_text and split_document make of an upload.
FileChunks(pdf_file) ==
    split_document(Pages(pdf_file.content), DefaultChunkSize, DefaultChunkOverlap)

\* vectorstore.as_retriever(search_type="similarity"): the texts of the k most
\* similar entries; which ones they are is the embedding's choice when the
\* collection holds more than k.
retrieve(store, collection_name) ==
    LET collection == CollectionOf(store, collection_name)
        slots == 1..Len(collection)
    IN  { {collection[k].page_content : k \in top} :
            top \in {t \in SUBSET slots :
                        Cardinality(t) = (IF Len(collection) < RetrieverK
                                          THEN Len(collection) ELSE RetrieverK)} }

\* query_document and df.insert(0, 'file_name', file_name): the row of a file,
\* its four fields being the model's answer to the retrieved context.
query_document(collection_name, context, file_name) ==
    [file_name |-> file_name, collection |-> collection_name,
     context |-> context]

NoFailure == [index |-> 0, stage |-> "none"]

IdleBatch ==
    [pc |-> "idle", pdf_files |-> <<>>, i |-> 0, results |-> <<>>,
     failed |-> NoFailure, raised |-> NoError, final_df |-> <<>>]

\* A loop that catches the exception of a file and goes on to the next one.
skip_failed_file(b, stage, exc) ==
    [b EXCEPT !.i = @ + 1, !.failed = [index |-> b.i, stage |-> stage]]

\* An exception in the loop body is caught nowhere: it leaves
\* process_multiple_pdfs, and no table is returned.
on_failure(b, stage, exc) ==
    [b EXCEPT !.pc = "raised", !.raised = exc,
              !.failed = [index |-> b.i, stage |-> stage]]

\* results.append(df)
append_row(results, row) == Append(results, row)

\* One iteration of the for loop, for the file at b.i: the possible outcomes
\* [batch, db, tmpdir].  fail_at names the stage that fails, if any.
loop_body(b, store, dir, fail_at, ids_list) ==
    LET pdf_file == b.pdf_files[b.i]
        file_name == pdf_file.name
    IN  UNION {
          IF p.raised # NoError
          THEN {[batch |-> on_failure(b, fail_at, p.raised), db |-> store,
                 tmpdir |-> p.tmpdir]}
          ELSE UNION {
            IF v.raised # NoError
            THEN {[batch |-> on_failure(b, "embed", v.raised), db |-> v.db,
                   tmpdir |-> p.tmpdir]}
            ELSE IF fail_at = "query"
            THEN {[batch |-> on_failure(b, "query", StepError("query")),
                   db |-> v.db, tmpdir |-> p.tmpdir]}
            ELSE {[batch |-> [b EXCEPT
                       !.results = append_row(@,
                           query_document(v.collection_name, context, file_name)),
                       !.i = @ + 1],
                   db |-> v.db, tmpdir |-> p.tmpdir] :
                  context \in retrieve(v.db, v.collection_name)}
            : v \in {create_vectorstore_from_texts(store, p.documents, file_name,
                                                   ids_list, fail_at # "embed")} }
          : p \in {get_pdf_text(pdf_file,
                                IF fail_at \in FailAts THEN fail_at ELSE "none",
                                dir)} }

\* pd.concat(results, ignore_index=True), which raises ValueError ("No objects
\* to concatenate") for an empty list, and the return.
concat_and_return(b) ==
    IF b.results = <<>>
    THEN [b EXCEPT !.pc = "raised", !.raised = StepError("concat")]
    ELSE [b EXCEPT !.pc = "returned", !.final_df = b.results]

(***************************************************************************)
(* The inputs of the stateful operations.                                  *)
(***************************************************************************)
UploadNames ==
    { <<"x", " ", "(", "1", ")", ".", "a">>,
      <<"x", " ", "(", "1", "1", ")", ".", "a">>,
      <<"y", ".", "a">> }
PdfPageTexts == { <<"x">>, <<"y">> }
Uploads ==
    [name : UploadNames, content : BoundedSeq(PdfPageTexts, MaxPdfPages)]
ChunkInputs == {Pages(t) : t \in BoundedSeq(PdfPageTexts, MaxChunks)}
StoreFileNames == { <<"x", " ", "(", "1", ")", ".", "a">>, <<"y", ".", "a">> }

NoSplitCall == [documents |-> <<>>, chunk_size |-> 1, chunk_overlap |-> 0]

(***************************************************************************)
(* The state before any operation ran: no temporary file, an empty store.  *)
(***************************************************************************)
Init ==
    /\ last = "init"
    /\ filename = <<>>
    /\ new_filename = <<>>
    /\ split_in = NoSplitCall
    /\ split_out = <<>>
    /\ tmpdir = {}
    /\ pdf_call = <<>>
    /\ db = <<>>
    /\ cv_call = <<>>
    /\ batch = IdleBatch

(***************************************************************************)
(* Calls of get_pdf_text, one after another.                               *)
(***************************************************************************)
GetPdfText ==
    \E uploaded_file \in Uploads, fail_at \in FailAts :
        \E r \in {get_pdf_text(uploaded_file, fail_at, tmpdir)} :
            /\ last' = "get_pdf_text"
            /\ pdf_call' = r
            /\ tmpdir' = r.tmpdir
            /\ UNCHANGED <<filename, new_filename, split_in, split_out, db,
                           cv_call, batch>>

NextPdf == GetPdfText
SpecPdf == Init /\ [][NextPdf]_vars

(***************************************************************************)
(* Calls of create_vectorstore on the persisted store, one after another.  *)
(***************************************************************************)
\* One call create_vectorstore(chunks, embedding_function, file_name).
Ingest(chunks, file_name) ==
    \E embed_ok \in BOOLEAN, ids_list \in ListsOf(Dedup(chunks).unique_ids) :
        \E r \in {create_vectorstore(db, chunks, file_name, ids_list, embed_ok)} :
            /\ last' = "create_vectorstore"
            /\ db' = r.db
            /\ cv_call' = [chunks |-> r.chunks,
                           file_name |-> r.file_name,
                           collection_name |-> r.collection_name,
                           unique_chunks |-> r.unique_chunks,
                           ids |-> r.ids,
                           count_before |-> r.count_before,
                           raised |-> r.raised,
                           repeat |-> /\ last = "create_vectorstore"
                                      /\ cv_call.raised = NoError
                                      /\ cv_call.chunks = chunks
                                      /\ cv_call.file_name = file_name]
            /\ UNCHANGED <<filename, new_filename, split_in, split_out,
                           tmpdir, pdf_call, batch>>

CreateVectorstore ==
    \E chunks \in ChunkInputs, file_name \in StoreFileNames :
        Ingest(chunks, file_name)

NextStore == CreateVectorstore
SpecStore == Init /\ [][NextStore]_vars

(***************************************************************************)
(* The first call of create_vectorstore on an empty store, for every chunk *)
(* list of a larger domain: the initial states draw the arguments.         *)
(***************************************************************************)
DedupTexts == { <<"x">>, <<"y">>, <<"z">> }
DedupInputs == {Pages(t) : t \in BoundedSeq(DedupTexts, MaxDedupLen)}

InitIngest ==
    /\ last = "init"
    /\ filename = <<>>
    /\ new_filename = <<>>
    /\ split_in = NoSplitCall
    /\ split_out = <<>>
    /\ tmpdir = {}
    /\ pdf_call = <<>>
    /\ db = <<>>
    /\ cv_call \in [chunks : DedupInputs, file_name : UploadNames]
    /\ batch = IdleBatch

FirstIngestion ==
    /\ last = "init"
    /\ Ingest(cv_call.chunks, cv_call.file_name)

NextIngest == FirstIngestion
SpecIngest == InitIngest /\ [][NextIngest]_vars

(***************************************************************************)
(* process_multiple_pdfs(pdf_files, query), call after call on the same    *)
(* persisted store.                                                        *)
(***************************************************************************)
BatchContents == { << <<"x">> >>, << <<"x">>, <<"y">> >> }
BatchFiles == [name : UploadNames, content : BatchContents]
BatchInputs == BoundedSeq(BatchFiles, MaxBatch)
BatchFailAts == FailAts \cup {"embed", "query"}

StartBatch ==
    /\ batch.pc = "idle"
    /\ \E pdf_files \in BatchInputs :
          batch' = [IdleBatch EXCEPT !.pc = "loop", !.pdf_files = pdf_files,
                                     !.i = 1]
    /\ last' = "process_multiple_pdfs"
    /\ UNCHANGED <<filename, new_filename, split_in, split_out, tmpdir,
                   pdf_call, db, cv_call>>

ProcessFile ==
    /\ batch.pc = "loop"
    /\ batch.i <= Len(batch.pdf_files)
    /\ \E fail_at \in BatchFailAts :
          \E ids_list \in
                ListsOf(Dedup(FileChunks(batch.pdf_files[batch.i])).unique_ids) :
              \E r \in loop_body(batch, db, tmpdir, fail_at, ids_list) :
                  /\ batch' = r.batch
                  /\ db' = r.db
                  /\ tmpdir' = r.tmpdir
    /\ UNCHANGED <<last, filename, new_filename, split_in, split_out,
                   pdf_call, cv_call>>

FinishBatch ==
    /\ batch.pc = "loop"
    /\ batch.i > Len(batch.pdf_files)
    /\ batch' = concat_and_return(batch)
    /\ UNCHANGED <<last, filename, new_filename, split_in, split_out, tmpdir,
                   pdf_call, db, cv_call>>

\* The caller is done with what the call returned or raised; the store and
\* the temporary directory stay as the call left them.
CallerContinues ==
    /\ batch.pc \in {"returned", "raised"}
    /\ batch' = IdleBatch
    /\ UNCHANGED <<last, filename, new_filename, split_in, split_out, tmpdir,
                   pdf_call, db, cv_call>>

Next == StartBatch \/ ProcessFile \/ FinishBatch \/ CallerContinues
Spec == Init /\ [][Next]_vars

(***************************************************************************)
(* The pure functions.  The initial states draw the arguments from the     *)
(* bounded domains and the action applies the function to them.            *)
(***************************************************************************)
InitClean ==
    /\ last = "init"
    /\ filename \in FileNameInputs
    /\ new_filename = <<>>
    /\ split_in = NoSplitCall
    /\ split_out = <<>>
    /\ tmpdir = {}
    /\ pdf_call = <<>>
    /\ db = <<>>
    /\ cv_call = <<>>
    /\ batch = IdleBatch

CleanFilename ==
    /\ last = "init"
    /\ last' = "clean_filename"
    /\ new_filename' = clean_filename(filename)
    /\ UNCHANGED <<filename, split_in, split_out, tmpdir, pdf_call, db,
                   cv_call, batch>>

NextClean == CleanFilename
SpecClean == InitClean /\ [][NextClean]_vars

InitSplit ==
    /\ last = "init"
    /\ filename = <<>>
    /\ new_filename = <<>>
    /\ \E documents \in DocumentInputs, S \in 1..MaxChunkSize :
          \E O \in 0..(S - 1) :
              split_in = [documents |-> documents, chunk_size |-> S,
                          chunk_overlap |-> O]
    /\ split_out = <<>>
    /\ tmpdir = {}
    /\ pdf_call = <<>>
    /\ db = <<>>
    /\ cv_call = <<>>
    /\ batch = IdleBatch

SplitDocument ==
    /\ last = "init"
    /\ last' = "split_document"
    /\ split_out' = split_document(split_in.documents, split_in.chunk_size,
                                   split_in.chunk_overlap)
    /\ UNCHANGED <<filename, new_filename, split_in, tmpdir, pdf_call,
                   db, cv_call, batch>>

NextSplit == SplitDocument
SpecSplit == InitSplit /\ [][NextSplit]_vars

(***************************************************************************)
(* C9: for every file name, the name clean_filename returns contains no    *)
(* "(number)" pattern: no opening parenthesis followed by one or more      *)
(* digits and a closing parenthesis.                                       *)
(***************************************************************************)
CleanedHasNoParenNumber ==
    last = "clean_filename" => ~HasParenNumber(new_filename)

(***************************************************************************)
(* C3: for every document, chunk_size S and chunk_overlap O with           *)
(* 0 <= O < S, every chunk split_document returns has length <= S, also    *)
(* for text that holds no separator.                                       *)
(***************************************************************************)
EveryChunkWithinSize ==
    last = "split_document" =>
        \A k \in 1..Len(split_out) :
            Len(split_out[k].page_content) <= split_in.chunk_size

(***************************************************************************)
(* C4: on every exit path of get_pdf_text the temporary file the call      *)
(* created no longer exists when it returns or raises, and after any       *)
(* sequence of calls no temporary file remains.                            *)
(***************************************************************************)
NoTempFileRemains ==
    /\ tmpdir = {}
    /\ last = "get_pdf_text" =>
          \A k \in 1..Len(pdf_call.temp_file) : pdf_call.temp_file[k] \notin tmpdir

\* A call that created its temporary file and then failed to parse it.
ParseFailedAfterTempFile ==
    /\ last = "get_pdf_text"
    /\ pdf_call.fail_at = "parse"
    /\ pdf_call.temp_file # <<>>
    /\ pdf_call.raised = StepError("parse")

(***************************************************************************)
(* C10: whenever get_pdf_text raises, the exception that leaves the call   *)
(* is the one the failing step raised; the cleanup block raises no error   *)
(* of its own, also when the failure precedes the temporary file.          *)
(***************************************************************************)
RaisesTheFailingStepsError ==
    last = "get_pdf_text" =>
        pdf_call.raised = (IF pdf_call.fail_at = "none" THEN NoError
                           ELSE StepError(pdf_call.fail_at))

(***************************************************************************)
(* C1: every chunk is stored under the identity computed from its own      *)
(* text: the i-th id passed to the store is uuid5 of the i-th deduplicated *)
(* chunk, and every entry (id, text) of every collection has               *)
(* id = uuid5(text).                                                       *)
(***************************************************************************)
StoredUnderOwnIdentity ==
    /\ (last = "create_vectorstore" /\ cv_call.raised = NoError) =>
          \A k \in 1..Len(cv_call.unique_chunks) :
              cv_call.ids[k] = uuid5(cv_call.unique_chunks[k].page_content)
    /\ \A n \in DOMAIN db : \A k \in 1..Len(db[n]) :
          db[n][k].id = uuid5(db[n][k].page_content)

(***************************************************************************)
(* C7: ingesting the same chunks under the same file name a second time    *)
(* leaves the collection's entry count unchanged, and no two entries of a  *)
(* collection share an identity.                                           *)
(***************************************************************************)
IdempotentIngestion ==
    /\ (last = "create_vectorstore" /\ cv_call.repeat) =>
          Len(db[cv_call.collection_name]) = cv_call.count_before
    /\ \A n \in DOMAIN db : \A i, j \in 1..Len(db[n]) :
          db[n][i].id = db[n][j].id => i = j

\* A second, successful ingestion of the same chunks into a collection that
\* holds entries.
ReingestedSameChunks ==
    /\ last = "create_vectorstore"
    /\ cv_call.repeat
    /\ cv_call.raised = NoError
    /\ Len(cv_call.unique_chunks) >= 2
    /\ Len(db[cv_call.collection_name]) >= 2

\* The indices of the chunks whose content no earlier chunk has.
FirstOccurrences(chunks) ==
    {i \in 1..Len(chunks) :
        \A j \in 1..(i - 1) : chunks[j].page_content # chunks[i].page_content}

(***************************************************************************)
(* C8: the deduplicated chunk list holds every distinct chunk content      *)
(* exactly once, and the kept chunks are the first occurrences, in the     *)
(* order of the input.                                                     *)
(***************************************************************************)
DedupKeepsFirstOccurrences ==
    last = "create_vectorstore" =>
        LET firsts == FirstOccurrences(cv_call.chunks)
            unique == cv_call.unique_chunks
        IN  /\ Len(unique) = Cardinality(firsts)
            /\ \A k \in 1..Len(unique) :
                  unique[k] = cv_call.chunks[
                      CHOOSE i \in firsts :
                          Cardinality({j \in firsts : j < i}) = k - 1]
            /\ \A c \in {cv_call.chunks[i].page_content : i \in 1..Len(cv_call.chunks)} :
                  Cardinality({k \in 1..Len(unique) : unique[k].page_content = c}) = 1

\* A chunk list with a repeated content between two different ones.
DedupDroppedADuplicate ==
    /\ last = "create_vectorstore"
    /\ cv_call.raised = NoError
    /\ Len(cv_call.chunks) = 3
    /\ Len(cv_call.unique_chunks) = 2
    /\ cv_call.chunks[1].page_content = cv_call.chunks[3].page_content
    /\ cv_call.unique_chunks[1] = cv_call.chunks[1]

\* The chunk texts of an upload's own content.
OwnTexts(pdf_file) ==
    {FileChunks(pdf_file)[k].page_content : k \in 1..Len(FileChunks(pdf_file))}

\* Two files with different names that clean to one collection name, and with
\* different contents.
Colliding(f, g) ==
    /\ f.name # g.name
    /\ clean_filename(f.name) = clean_filename(g.name)
    /\ f.content # g.content

(***************************************************************************)
(* C2: when two files whose names clean to the same collection name have   *)
(* different contents, the second ingestion is reported as a name          *)
(* collision and their chunks are never merged silently: the context       *)
(* retrieved for one file holds no chunk that came only from the other.    *)
(***************************************************************************)
NoSilentMergeOfCollidingFiles ==
    \A j, k \in 1..Len(batch.results) :
        Colliding(batch.pdf_files[j], batch.pdf_files[k]) =>
            batch.results[k].context
                \cap (OwnTexts(batch.pdf_files[j]) \ OwnTexts(batch.pdf_files[k]))
            = {}

\* table has one row per file, in the order of the files, each row naming its
\* file and read from the collection of that file's name.
RowsMatchFiles(table, pdf_files) ==
    /\ Len(table) = Len(pdf_files)
    /\ \A k \in 1..Len(pdf_files) :
          /\ table[k].file_name = pdf_files[k].name
          /\ table[k].collection = clean_filename(pdf_files[k].name)

(***************************************************************************)
(* C5: when every file of a batch is processed successfully,               *)
(* process_multiple_pdfs returns a table with one row per input file in    *)
(* input order, row i carrying the name of the i-th file and the fields    *)
(* extracted from that file's own collection.                              *)
(***************************************************************************)
AllSucceededReturnsOneRowPerFile ==
    (batch.pc \in {"returned", "raised"} /\ batch.failed = NoFailure) =>
        /\ batch.pc = "returned"
        /\ RowsMatchFiles(batch.final_df, batch.pdf_files)

\* Every table process_multiple_pdfs does return has one row per input file,
\* in input order.
ReturnedTableHasOneRowPerFile ==
    batch.pc = "returned" => RowsMatchFiles(batch.final_df, batch.pdf_files)

(***************************************************************************)
(* C6: if any stage fails for any file of a batch, process_multiple_pdfs   *)
(* raises and returns no table; it never returns a table that omits an     *)
(* input file or that holds a row for a file whose pipeline failed.        *)
(***************************************************************************)
FailureRaisesAndReturnsNoTable ==
    /\ batch.failed # NoFailure =>
          /\ batch.pc = "raised"
          /\ batch.raised # NoError
          /\ batch.final_df = <<>>
    /\ batch.pc = "returned" =>
          /\ batch.failed = NoFailure
          /\ Len(batch.final_df) = Len(batch.pdf_files)
          /\ \A k \in 1..Len(batch.pdf_files) :
                batch.final_df[k].file_name = batch.pdf_files[k].name

\* The second file of a batch failed after the first one had yielded its row.
SecondFileFailedAfterARow ==
    /\ batch.pc = "raised"
    /\ batch.failed.index = 2
    /\ batch.failed.stage = "query"
    /\ Len(batch.results) = 1
    /\ batch.final_df = <<>>

====
